---------------------------- MODULE Spec2Model ----------------------------
(***************************************************************************)
(* A model of warp's documentation layer: the RouteDocumentation record    *)
(* and its operations (src/src/document.rs), the explicit documentation    *)
(* override node, the Map combinator (src/src/filter/map.rs) and the       *)
(* to_openapi converter.                                                   *)
(*                                                                         *)
(* Strings whose content the code inspects (paths, parameter names) are    *)
(* sequences of one-character strings; an Option<T> is <<>> for None and   *)
(* <<x>> for Some(x).                                                      *)
(***************************************************************************)
EXTENDS Integers, Sequences, FiniteSets, TLC

VARIABLES route, hist,
          routes, idx, paths, aborted, document,
          node, docIn, docOut, cbCalls, future, polls, lastPoll, fnCalls, docEntry,
          request, descriptor, schemaOut

recordVars == <<route, hist>>
openapiVars == <<routes, idx, paths, aborted, document>>
filterVars == <<node, docIn, docOut, cbCalls, future, polls, lastPoll, fnCalls, docEntry>>
leafVars == <<request, descriptor, schemaOut>>
vars == <<route, hist, routes, idx, paths, aborted, document,
          node, docIn, docOut, cbCalls, future, polls, lastPoll, fnCalls, docEntry,
          request, descriptor, schemaOut>>

\* ------------------------------------------------------------------ bounds
\* Number of record operations applied to one record.
MaxOps == 3

\* ----------------------------------------------------------------- strings
None == <<>>

Some(x) == <<x>>

DigitChars == <<"0", "1", "2", "3", "4", "5", "6", "7", "8", "9">>

RECURSIVE to_string(_)
\* Display for usize: the decimal digits of n.
to_string(n) ==
    IF n < 10 THEN <<DigitChars[n + 1]>>
    ELSE to_string(n \div 10) \o <<DigitChars[(n % 10) + 1]>>

\* format!("{{{}}}", x): the text x between one pair of braces.
format_braces(x) == <<"{">> \o x \o <<"}">>

\* str::ends_with(char)
ends_with(s, c) == Len(s) > 0 /\ s[Len(s)] = c

RECURSIVE replace(_, _, _)
\* str::replace(from, to): every non-overlapping match of `from`, scanning
\* from the left, is replaced by `to`.  `from` is never empty here.
replace(s, from, to) ==
    IF Len(s) < Len(from) THEN s
    ELSE IF SubSeq(s, 1, Len(from)) = from
         THEN to \o replace(SubSeq(s, Len(from) + 1, Len(s)), from, to)
         ELSE <<s[1]>> \o replace(Tail(s), from, to)

\* ------------------------------------------------------- type descriptors
\* DocumentedType::Primitive as the constructors boolean()/float()/
\* integer()/string() build it.
Primitive(ty) ==
    [kind |-> "Primitive", ty |-> ty,
     description |-> None, example |-> None, nullable |-> None]

integer == Primitive("Integer")

string == Primitive("String")

\* object(fields): DocumentedType::Object with the given properties.
object(fields) ==
    [kind |-> "Object", properties |-> fields,
     description |-> None, example |-> None, nullable |-> None]

\* HashMap::default(): the map with no key.
EmptyMap == [k \in {} |-> None]

\* ------------------------------------------------------ the record's parts
\* DocumentedHeader / DocumentedCookie: name, description, required.
Named(name, description, required) ==
    [name |-> name, description |-> description, required |-> required]

\* DocumentedParameter / DocumentedQuery as parameter()/query() build them:
\* no description, required.
parameter_of(name, type_) ==
    [name |-> name, description |-> None, type_ |-> type_, required |-> TRUE]

\* DocumentedBody
Body(type_, mime) == [body |-> type_, mime |-> mime]

\* DocumentedResponse
Response(status, description, headers, body) ==
    [body |-> body, description |-> description, headers |-> headers,
     status |-> status]

\* The field the Hash and PartialEq impls of each set element compare.
cookie_key == "name"

header_key == "name"

response_key == "status"

body_key == "mime"

\* HashSet::insert under an element type whose equality compares the field
\* `key`: an element equal to one already present is not inserted and the
\* old one stays.
hashset_insert(S, e, key) ==
    IF \E x \in S : x[key] = e[key] THEN S ELSE S \cup {e}

\* ------------------------------------------------------ RouteDocumentation
\* The default record if its path were the empty string.
DefaultEmptyPath ==
    [bodies |-> {}, cookies |-> {}, description |-> None, headers |-> {},
     method |-> "POST", parameters |-> <<>>, path |-> <<>>,
     queries |-> <<>>, responses |-> {}, tags |-> <<>>]

Default ==
    [bodies |-> {}, cookies |-> {}, description |-> None, headers |-> {},
     method |-> "POST", parameters |-> <<>>, path |-> <<"/">>,
     queries |-> <<>>, responses |-> {}, tags |-> <<>>]

\* body() as it would be if a second body of one mime replaced the first.
body_last_wins(r, b) ==
    [r EXCEPT !.bodies = {x \in @ : x[body_key] # b[body_key]} \cup {b}]

body(r, b) == [r EXCEPT !.bodies = hashset_insert(@, b, body_key)]

cookie(r, c) == [r EXCEPT !.cookies = hashset_insert(@, c, cookie_key)]

description(r, d) == [r EXCEPT !.description = Some(d)]

\* header() as it would be if a second header of one name replaced the first.
header_last_wins(r, h) ==
    [r EXCEPT !.headers = {x \in @ : x[header_key] # h[header_key]} \cup {h}]

header(r, h) == [r EXCEPT !.headers = hashset_insert(@, h, header_key)]

\* push_path with the separator pushed whatever the path ends with.
push_path_always_separates(r, s) ==
    [r EXCEPT !.path = Append(@, "/") \o s]

push_path(r, s) ==
    [r EXCEPT !.path =
        (IF ~ends_with(@, "/") THEN Append(@, "/") ELSE @) \o s]

\* parameter() as it would be if the index were taken after the push.
parameter_late_index(r, p) ==
    LET pushed == push_path(r, format_braces(to_string(Len(r.parameters) + 1)))
    IN  [pushed EXCEPT !.parameters = Append(@, p)]

parameter(r, p) ==
    LET pushed == push_path(r, format_braces(to_string(Len(r.parameters))))
    IN  [pushed EXCEPT !.parameters = Append(@, p)]

RECURSIVE pretty_fold(_, _, _)
\* The fold of pretty_path from the i-th parameter (0-based) on.
pretty_fold(path, params, i) ==
    IF i >= Len(params) THEN path
    ELSE pretty_fold(replace(path,
                             format_braces(to_string(i)),
                             format_braces(params[i + 1].name)),
                     params, i + 1)

pretty_path(r) == pretty_fold(r.path, r.parameters, 0)

\* query() as it would be if a query already present were not added again.
query_deduplicated(r, q) ==
    IF \E i \in 1..Len(r.queries) : r.queries[i] = q THEN r
    ELSE [r EXCEPT !.queries = Append(@, q)]

query(r, q) == [r EXCEPT !.queries = Append(@, q)]

response(r, x) == [r EXCEPT !.responses = hashset_insert(@, x, response_key)]

tag(r, t) == [r EXCEPT !.tags = Append(@, t)]

\* ------------------------------------------------- inputs of the operations
ParamNames == {<<"1">>, <<"x">>}

ParameterInputs == {parameter_of(n, integer) : n \in ParamNames}

\* Path segments without braces: a, bc and d/.
Segments == {<<"a">>, <<"b", "c">>, <<"d", "/">>}

HeaderInputs ==
    {Named("A", None, TRUE), Named("A", Some("d"), FALSE),
     Named("B", None, TRUE)}

CookieInputs ==
    {Named("s", None, TRUE), Named("s", Some("d"), FALSE),
     Named("t", None, FALSE)}

QueryInputs == {parameter_of(<<"q">>, string), parameter_of(<<"p">>, integer)}

BodyInputs ==
    {Body(object(EmptyMap), None), Body(string, None),
     Body(integer, Some("application/json"))}

ResponseInputs ==
    {Response(200, "", {}, {}),
     Response(200, "ok", {Named("A", None, TRUE)}, {Body(string, None)}),
     Response(404, "missing", {}, {})}

TagInputs == {"t1", "t2"}

\* A description is its sequence of lines.
DescriptionInputs == {<<"d1">>, <<"d2", "more">>}

\* One applied operation, as kept in the history.
Call(op, arg) == [op |-> op, arg |-> arg]

\* --------------------------------------------------- idle values per group
IdleOpenapi ==
    /\ routes = <<>>
    /\ idx = 0
    /\ paths = <<>>
    /\ aborted = FALSE
    /\ document = None

IdleFilter ==
    /\ node = None
    /\ docIn = None
    /\ docOut = None
    /\ cbCalls = 0
    /\ future = None
    /\ polls = 0
    /\ lastPoll = None
    /\ fnCalls = <<>>
    /\ docEntry = "none"

IdleRecord ==
    /\ route = Default
    /\ hist = <<>>

IdleLeaf ==
    /\ request = None
    /\ descriptor = None
    /\ schemaOut = None

\* ------------------------------------------------ building one record
\* describe(): the root filter starts from RouteDocumentation::default();
\* the filters of the tree then apply record operations to it.
Init ==
    /\ route = Default
    /\ hist = <<>>
    /\ IdleOpenapi
    /\ IdleFilter
    /\ IdleLeaf

Apply(r, c) ==
    /\ Len(hist) < MaxOps
    /\ route' = r
    /\ hist' = Append(hist, c)
    /\ UNCHANGED <<openapiVars, filterVars, leafVars>>

BodyStep == \E b \in BodyInputs : Apply(body(route, b), Call("body", b))

CookieStep == \E c \in CookieInputs : Apply(cookie(route, c), Call("cookie", c))

DescriptionStep ==
    \E d \in DescriptionInputs : Apply(description(route, d), Call("description", d))

HeaderStep == \E h \in HeaderInputs : Apply(header(route, h), Call("header", h))

ParameterStep ==
    \E p \in ParameterInputs : Apply(parameter(route, p), Call("parameter", p))

PushPathStep == \E s \in Segments : Apply(push_path(route, s), Call("push_path", s))

QueryStep == \E q \in QueryInputs : Apply(query(route, q), Call("query", q))

ResponseStep ==
    \E x \in ResponseInputs : Apply(response(route, x), Call("response", x))

TagStep == \E t \in TagInputs : Apply(tag(route, t), Call("tag", t))

Next ==
    \/ BodyStep
    \/ CookieStep
    \/ DescriptionStep
    \/ HeaderStep
    \/ ParameterStep
    \/ PushPathStep
    \/ QueryStep
    \/ ResponseStep
    \/ TagStep

Spec == Init /\ [][Next]_vars

\* ---------------------------------------------------------------- to_openapi
\* Number of records handed to to_openapi.
MaxRoutes == 3

\* Option::unwrap_or
unwrap_or(o, d) == IF o = None THEN d ELSE o[1]

\* The schema_data with nullable defaulting to true.
schema_data_nullable_by_default(t) ==
    [description |-> t.description, example |-> t.example,
     nullable |-> unwrap_or(t.nullable, TRUE)]

\* The schema_data every arm of documented_type_to_openapi builds.
schema_data_of(t) ==
    [description |-> t.description, example |-> t.example,
     nullable |-> unwrap_or(t.nullable, FALSE)]

\* The scalar kind of the Primitive arm.
primitive_type(ty) ==
    CASE ty = "Boolean" -> "boolean"
      [] ty = "Float" -> "number"
      [] ty = "Integer" -> "integer"
      [] ty = "String" -> "string"

RECURSIVE documented_type_to_openapi(_)
documented_type_to_openapi(t) ==
    CASE t.kind = "Array" ->
           [schema_data |-> schema_data_of(t),
            schema_kind |-> [type |-> "array",
                             items |-> documented_type_to_openapi(t.element)]]
      [] t.kind = "Map" ->
           [schema_data |-> schema_data_of(t),
            schema_kind |->
                [type |-> "object", properties |-> EmptyMap,
                 additional_properties |->
                     Some(documented_type_to_openapi(t.value_type))]]
      [] t.kind = "Object" ->
           [schema_data |-> schema_data_of(t),
            schema_kind |->
                [type |-> "object",
                 properties |->
                     [n \in DOMAIN t.properties |->
                          documented_type_to_openapi(t.properties[n])],
                 additional_properties |-> None]]
      [] t.kind = "OneOf" ->
           [schema_data |-> schema_data_of(t),
            schema_kind |->
                [one_of |-> [i \in 1..Len(t.variants) |->
                                 documented_type_to_openapi(t.variants[i])]]]
      [] t.kind = "Primitive" ->
           [schema_data |-> schema_data_of(t),
            schema_kind |-> [type |-> primitive_type(t.ty)]]

\* The schema of header, query and cookie parameters and of response
\* headers: a string with SchemaData::default().
string_schema ==
    [schema_data |-> [description |-> None, example |-> None,
                      nullable |-> FALSE],
     schema_kind |-> [type |-> "string"]]

\* The orders in which iterating a HashSet can yield its elements.
Orderings(S) ==
    {s \in [1..Cardinality(S) -> S] :
        \A i, j \in 1..Cardinality(S) : s[i] = s[j] => i = j}

\* IndexMap::insert: a present key keeps its position and takes the new
\* value, a new key goes to the end.
indexmap_insert(m, k, v) ==
    IF \E i \in 1..Len(m) : m[i].key = k
    THEN [i \in 1..Len(m) |-> IF m[i].key = k THEN [key |-> k, value |-> v]
                                               ELSE m[i]]
    ELSE Append(m, [key |-> k, value |-> v])

RECURSIVE indexmap_collect(_)
\* Iterator::collect into an IndexMap: the pairs inserted in order.
indexmap_collect(pairs) ==
    IF pairs = <<>> THEN <<>>
    ELSE LET n == Len(pairs)
         IN  indexmap_insert(indexmap_collect(SubSeq(pairs, 1, n - 1)),
                             pairs[n].key, pairs[n].value)

RECURSIVE insert_by_status(_, _)
\* x inserted into the sorted sequence s after every element whose status is
\* not greater.
insert_by_status(s, x) ==
    IF s = <<>> THEN <<x>>
    ELSE IF s[Len(s)].status <= x.status THEN Append(s, x)
         ELSE Append(insert_by_status(SubSeq(s, 1, Len(s) - 1), x), s[Len(s)])

RECURSIVE sort_by_status(_)
\* responses.sort_by_key(|response| response.status): a stable sort.
sort_by_status(s) ==
    IF s = <<>> THEN <<>>
    ELSE insert_by_status(sort_by_status(SubSeq(s, 1, Len(s) - 1)), s[Len(s)])

\* The sort left out.
sort_by_status_omitted(s) == s

\* The sort of the response vector before it is emitted.
sorted_responses(s) == sort_by_status(s)

\* bodies.into_iter().map(..).collect(): the content of a request body or of
\* a response, keyed by mime, `*/*` for a body without mime.
content_of(bodySeq) ==
    indexmap_collect(
        [i \in 1..Len(bodySeq) |->
            [key |-> unwrap_or(bodySeq[i].mime, "*/*"),
             value |-> [schema |->
                            Some(documented_type_to_openapi(bodySeq[i].body))]]])

\* One Parameter of the operation.
parameter_item(in, x, schema) ==
    [in |-> in,
     parameter_data |->
         [name |-> x.name, description |-> x.description,
          required |-> x.required, deprecated |-> Some(FALSE),
          format |-> schema, example |-> None]]

\* The headers of one response, keyed by name.
response_headers(hdrSeq) ==
    indexmap_collect(
        [i \in 1..Len(hdrSeq) |->
            [key |-> hdrSeq[i].name,
             value |-> [description |-> hdrSeq[i].description,
                        required |-> hdrSeq[i].required,
                        deprecated |-> None,
                        format |-> string_schema]]])

\* The only iteration order of a set of at most one element; the responses
\* of the inputs carry at most one header and one body each.
OnlyOrder(S) == CHOOSE s \in Orderings(S) : TRUE

\* One entry of operation.responses.responses.
response_item(x) ==
    [key |-> x.status,
     value |-> [description |-> x.description,
                headers |-> response_headers(OnlyOrder(x.headers)),
                content |-> content_of(OnlyOrder(x.body))]]

\* The summary: the first line of the description, if there is one.
summary_of(d) ==
    IF d = None \/ d[1] = <<>> THEN None ELSE Some(d[1][1])

\* The Operation built for one record; ord gives the order in which each
\* HashSet of the record is iterated.
operation_of(r, ord) ==
    LET sorted == sorted_responses(ord.responses)
    IN  [tags |-> r.tags,
         summary |-> summary_of(r.description),
         description |-> r.description,
         request_body |-> [required |-> r.bodies # {},
                           content |-> content_of(ord.bodies)],
         parameters |->
             [i \in 1..Len(r.parameters) |->
                 parameter_item("path", r.parameters[i],
                     documented_type_to_openapi(r.parameters[i].type_))]
             \o [i \in 1..Len(ord.headers) |->
                    parameter_item("header", ord.headers[i], string_schema)]
             \o [i \in 1..Len(r.queries) |->
                    parameter_item("query", r.queries[i], string_schema)]
             \o [i \in 1..Len(ord.cookies) |->
                    parameter_item("cookie", ord.cookies[i], string_schema)],
         responses |->
             indexmap_collect([i \in 1..Len(sorted) |-> response_item(sorted[i])])]

\* The iteration orders of the four HashSets of a record.
Orders(r) ==
    [bodies : Orderings(r.bodies), cookies : Orderings(r.cookies),
     headers : Orderings(r.headers), responses : Orderings(r.responses)]

\* The method match if it had an arm for CONNECT as well.
SlotMethodsWithConnect ==
    {"GET", "POST", "PUT", "DELETE", "HEAD", "OPTIONS", "PATCH", "TRACE",
     "CONNECT"}

\* The methods a PathItem has a slot for.
SlotMethods ==
    {"GET", "POST", "PUT", "DELETE", "HEAD", "OPTIONS", "PATCH", "TRACE"}

\* PathItem::default(): every slot empty.
PathItemDefault == [m \in SlotMethods |-> None]

\* The slot assignment if a later operation replaced the stored one.
assign_slot_last_wins(item, m, op) == [item EXCEPT ![m] = Some(op)]

\* item.<m> = item.<m>.take().or(Some(operation))
assign_slot(item, m, op) ==
    [item EXCEPT ![m] = IF @ # None THEN @ ELSE Some(op)]

\* paths.entry(path).or_insert_with(PathItem::default)
entry_or_insert(ps, path) ==
    IF \E i \in 1..Len(ps) : ps[i].key = path THEN ps
    ELSE Append(ps, [key |-> path, value |-> PathItemDefault])

\* The position of a path in the map under construction.
index_of(ps, path) == CHOOSE i \in 1..Len(ps) : ps[i].key = path

WithMethod(r, m) == [r EXCEPT !.method = m]

R200 == Response(200, "ok", {Named("A", None, TRUE)}, {Body(string, None)})

R404 == Response(404, "missing", {}, {})

R500 == Response(500, "", {}, {})

\* The records handed to to_openapi, each built by record operations from
\* the default record; the method filters set `method`.
RouteInputs ==
    {response(response(response(tag(push_path(WithMethod(Default, "GET"),
        <<"a">>), "t1"), R404), R200), R500),
     description(response(push_path(WithMethod(Default, "GET"), <<"a">>),
        R500), <<"d2", "more">>),
     body(body(push_path(Default, <<"a">>), Body(string, None)),
        Body(integer, Some("application/json"))),
     header(header(cookie(cookie(
        parameter(WithMethod(Default, "GET"), parameter_of(<<"x">>, integer)),
        Named("s", None, TRUE)), Named("t", None, FALSE)),
        Named("A", None, TRUE)), Named("B", Some("d"), FALSE)),
     query(parameter(WithMethod(Default, "PUT"),
        parameter_of(<<"x">>, string)), parameter_of(<<"q">>, string)),
     response(push_path(WithMethod(Default, "CONNECT"), <<"a">>), R200),
     body(body(push_path(WithMethod(Default, "PATCH"), <<"b">>),
        Body(string, None)), Body(integer, Some("*/*")))}

InitOpenapi ==
    /\ routes \in UNION {[1..n -> RouteInputs] : n \in 1..MaxRoutes}
    /\ idx = 0
    /\ paths = <<>>
    /\ aborted = FALSE
    /\ document = None
    /\ IdleRecord
    /\ IdleFilter
    /\ IdleLeaf

\* One iteration of routes.into_iter().for_each(..) for a record whose
\* method has a slot.
ConvertRoute ==
    /\ ~aborted
    /\ idx < Len(routes)
    /\ routes[idx + 1].method \in SlotMethods
    /\ \E ord \in Orders(routes[idx + 1]) :
           LET r == routes[idx + 1]
               path == pretty_path(r)
               ps == entry_or_insert(paths, path)
               i == index_of(ps, path)
           IN  paths' = [ps EXCEPT
                   ![i].value = assign_slot(@, r.method, operation_of(r, ord))]
    /\ idx' = idx + 1
    /\ UNCHANGED <<routes, aborted, document, recordVars, filterVars, leafVars>>

\* The iteration for a record whose method has no slot: unimplemented!()
\* panics and to_openapi returns nothing.
ConvertPanics ==
    /\ ~aborted
    /\ idx < Len(routes)
    /\ routes[idx + 1].method \notin SlotMethods
    /\ paths' = entry_or_insert(paths, pretty_path(routes[idx + 1]))
    /\ aborted' = TRUE
    /\ idx' = idx + 1
    /\ UNCHANGED <<routes, document, recordVars, filterVars, leafVars>>

\* After the last record: the OpenAPI document is returned.
ReturnDocument ==
    /\ ~aborted
    /\ idx = Len(routes)
    /\ document = None
    /\ document' = Some([openapi |-> "3.0.0", paths |-> paths])
    /\ UNCHANGED <<routes, idx, paths, aborted, recordVars, filterVars, leafVars>>

NextOpenapi ==
    \/ ConvertRoute
    \/ ConvertPanics
    \/ ReturnDocument

SpecOpenapi == InitOpenapi /\ [][NextOpenapi]_vars

\* ------------------------------------------------------------- filter nodes
\* Polls a wrapped filter's future may answer Pending before it completes.
MaxPending == 2

\* Map nodes stacked over one explicit node.
MaxDepth == 2

\* Result<Extract, Error>
Ok(x) == [ok |-> TRUE, value |-> x]

Err(e) == [ok |-> FALSE, error |-> e]

\* Poll<T>
Pending == [ready |-> FALSE]

Ready(x) == [ready |-> TRUE, output |-> x]

\* One record operation of a documentation callback.
apply_call(r, c) ==
    CASE c.op = "body" -> body(r, c.arg)
      [] c.op = "cookie" -> cookie(r, c.arg)
      [] c.op = "description" -> description(r, c.arg)
      [] c.op = "header" -> header(r, c.arg)
      [] c.op = "parameter" -> parameter(r, c.arg)
      [] c.op = "push_path" -> push_path(r, c.arg)
      [] c.op = "query" -> query(r, c.arg)
      [] c.op = "response" -> response(r, c.arg)
      [] c.op = "tag" -> tag(r, c.arg)

RECURSIVE run_calls(_, _)
\* The record operations of a callback body, applied in order.
run_calls(cb, r) ==
    IF cb = <<>> THEN r ELSE run_calls(Tail(cb), apply_call(r, Head(cb)))

\* (self.describe)(&mut route): one invocation of a documentation callback;
\* x carries the record and the number of invocations so far.
invoke(cb, x) == [route |-> run_calls(cb, x.route), calls |-> x.calls + 1]

\* ExplicitDocumentation::describe with the callback applied twice.
explicit_describe_twice(e, r) ==
    LET after == invoke(e.describe, invoke(e.describe, [route |-> r, calls |-> 0]))
    IN  [records |-> <<after.route>>, calls |-> after.calls]

\* ExplicitDocumentation::describe
explicit_describe(e, r) ==
    LET after == invoke(e.describe, [route |-> r, calls |-> 0])
    IN  [records |-> <<after.route>>, calls |-> after.calls]

\* ExplicitDocumentation::filter: the wrapped filter's future.
explicit_filter(e) == [future |-> e.filter.future, calls |-> 0]

\* D::document(item) of the reply type D of a Map: a reply that documents
\* nothing, one response, two alternative responses, or no record at all.
reply_document(D, item) ==
    CASE D = "nothing" -> <<item>>
      [] D = "response" -> <<response(item, R200)>>
      [] D = "either" -> <<response(item, R200), response(item, R404)>>
      [] D = "never" -> <<>>

RECURSIVE flat_map(_, _)
\* items.into_iter().flat_map(|item| D::document(item).into_iter()).collect()
flat_map(items, D) ==
    IF items = <<>> THEN <<>>
    ELSE reply_document(D, Head(items)) \o flat_map(Tail(items), D)

RECURSIVE map_first(_, _)
\* The expansion that keeps, per child record, only the first record of the
\* reply.
map_first(items, D) ==
    IF items = <<>> THEN <<>>
    ELSE SubSeq(reply_document(D, Head(items)), 1, 1) \o map_first(Tail(items), D)

\* The expansion of the child's records by the reply type.
expand(items, D) == flat_map(items, D)

RECURSIVE describe_node(_, _)
\* The documentation half of a node: ExplicitDocumentation::describe or
\* Map::document, which first asks the child.
describe_node(n, r) ==
    IF n.kind = "explicit" THEN explicit_describe(n, r)
    ELSE LET child == describe_node(n.filter, r)
         IN  [records |-> expand(child.records, n.reply),
              calls |-> child.calls]

RECURSIVE filter_node(_)
\* The extraction half of a node: ExplicitDocumentation::filter or
\* Map::filter, which builds a MapFuture around the child's future.
filter_node(n) ==
    IF n.kind = "explicit" THEN explicit_filter(n)
    ELSE LET child == filter_node(n.filter)
         IN  [future |-> [kind |-> "map", extract |-> child.future,
                          callback |-> n.callback],
              calls |-> child.calls]

\* Func::call: the transformation applied to the extracted tuple.
call(f, ex) ==
    CASE f = "inc" -> ex[1] + 1
      [] f = "double" -> 2 * ex[1]

\* Future::poll of a wrapped filter's future: the future afterwards, the
\* Poll returned and the transformation calls made (none).
leaf_poll(f) ==
    IF f.pending > 0
    THEN [future |-> [f EXCEPT !.pending = @ - 1], out |-> Pending,
          calls |-> <<>>]
    ELSE [future |-> f, out |-> Ready(f.result), calls |-> <<>>]

\* One transformation call, as logged: the nesting depth of the MapFuture,
\* the function and its argument.
FnCall(d, f, ex) == [depth |-> d, fn |-> f, arg |-> ex]

\* MapFuture::poll with the transformation called before the child's
\* result is inspected.
map_poll_eager(f, p, d) ==
    LET fut == [f EXCEPT !.extract = p.future]
        arg == IF p.out.ready /\ p.out.output.ok THEN p.out.output.value
               ELSE <<0>>
        calls == Append(p.calls, FnCall(d, f.callback, arg))
    IN  IF ~p.out.ready
        THEN [future |-> fut, out |-> Pending, calls |-> calls]
        ELSE IF p.out.output.ok
             THEN [future |-> fut,
                   out |-> Ready(Ok(<<call(f.callback, arg)>>)),
                   calls |-> calls]
             ELSE [future |-> fut, out |-> Ready(Err(p.out.output.error)),
                   calls |-> calls]

\* MapFuture::poll at nesting depth d, p being what polling `extract`
\* returned: ready!() answers Pending while the child is pending.
map_poll(f, p, d) ==
    LET fut == [f EXCEPT !.extract = p.future]
    IN  IF ~p.out.ready
        THEN [future |-> fut, out |-> Pending, calls |-> p.calls]
        ELSE IF p.out.output.ok
             THEN [future |-> fut,
                   out |-> Ready(Ok(<<call(f.callback, p.out.output.value)>>)),
                   calls |-> Append(p.calls,
                                FnCall(d, f.callback, p.out.output.value))]
             ELSE [future |-> fut, out |-> Ready(Err(p.out.output.error)),
                   calls |-> p.calls]

RECURSIVE poll(_, _)
\* Future::poll of the future of a node at nesting depth d.
poll(f, d) ==
    IF f.kind = "leaf" THEN leaf_poll(f)
    ELSE map_poll(f, poll(f.extract, d + 1), d)

\* Future::poll of the future a node's filter() returned.
poll_future(f) == poll(f, 0)

\* The futures of the wrapped filters: Pending for some polls, then one
\* extracted value or a rejection.
LeafFutures ==
    {[kind |-> "leaf", pending |-> n, result |-> x] :
        n \in 0..MaxPending,
        x \in {Ok(<<1>>), Ok(<<3>>), Err("missing-cookie")}}

\* The documentation callbacks of the explicit nodes.
Callbacks ==
    {<<>>,
     <<Call("tag", "t1")>>,
     <<Call("parameter", parameter_of(<<"x">>, integer))>>,
     <<Call("push_path", <<"a">>), Call("response", R404)>>}

ExplicitNodes ==
    {[kind |-> "explicit", filter |-> [future |-> f], describe |-> cb] :
        f \in LeafFutures, cb \in Callbacks}

Funcs == {"inc", "double"}

Replies == {"nothing", "response", "either", "never"}

MapsOver(S) ==
    {[kind |-> "map", filter |-> c, callback |-> f, reply |-> D] :
        c \in S, f \in Funcs, D \in Replies}

RECURSIVE NodesUpTo(_)
\* The nodes with at most d Map nodes over the explicit node.
NodesUpTo(d) ==
    IF d = 0 THEN ExplicitNodes
    ELSE NodesUpTo(d - 1) \cup MapsOver(NodesUpTo(d - 1))

\* The records a node's describe is called with directly.
DescribeInputs == {Default} \cup RouteInputs

InitFilter ==
    /\ node \in NodesUpTo(MaxDepth)
    /\ docIn = None
    /\ docOut = None
    /\ cbCalls = 0
    /\ future = None
    /\ polls = 0
    /\ lastPoll = None
    /\ fnCalls = <<>>
    /\ docEntry = "none"
    /\ IdleRecord
    /\ IdleOpenapi
    /\ IdleLeaf

\* describe(&filter): the root filter's describe from the default record.
DescribeRoot ==
    /\ docEntry = "none"
    /\ LET res == describe_node(node, Default)
       IN  /\ docIn' = Some(Default)
           /\ docOut' = Some(res.records)
           /\ cbCalls' = cbCalls + res.calls
    /\ docEntry' = "describe"
    /\ UNCHANGED <<node, future, polls, lastPoll, fnCalls, recordVars, openapiVars, leafVars>>

\* node.describe(route) called by a parent with the record it has built.
DescribeFrom ==
    /\ docEntry = "none"
    /\ \E r \in DescribeInputs :
           LET res == describe_node(node, r)
           IN  /\ docIn' = Some(r)
               /\ docOut' = Some(res.records)
               /\ cbCalls' = cbCalls + res.calls
    /\ docEntry' = "node"
    /\ UNCHANGED <<node, future, polls, lastPoll, fnCalls, recordVars, openapiVars, leafVars>>

\* node.filter(Internal): the future of one request.
Filter ==
    /\ future = None
    /\ LET res == filter_node(node)
       IN  /\ future' = Some(res.future)
           /\ cbCalls' = cbCalls + res.calls
    /\ UNCHANGED <<node, docIn, docOut, docEntry, polls, lastPoll, fnCalls,
                   recordVars, openapiVars, leafVars>>

\* One poll of the future by the executor; a completed future is not
\* polled again.
Poll ==
    /\ future # None
    /\ IF lastPoll = None THEN TRUE ELSE ~lastPoll[1].ready
    /\ LET res == poll_future(future[1])
       IN  /\ future' = Some(res.future)
           /\ lastPoll' = Some(res.out)
           /\ fnCalls' = fnCalls \o res.calls
    /\ polls' = polls + 1
    /\ UNCHANGED <<node, docIn, docOut, docEntry, cbCalls, recordVars, openapiVars, leafVars>>

NextFilter ==
    \/ DescribeRoot
    \/ DescribeFrom
    \/ Filter
    \/ Poll

SpecFilter == InitFilter /\ [][NextFilter]_vars

\* ------------------------------------------------- filters/cookie.rs, docs
\* The names the cookie filters are built for.
CookieNames == {"s", "t"}

\* DocumentedResponse::default(): the derived Default.
DocumentedResponseDefault == Response(0, "", {}, {})

\* HashMap::insert(k, v), the two-argument insert the cookie callback calls
\* on `responses`: the value of a present key is replaced.
map_insert(m, k, v) ==
    [x \in (DOMAIN m) \cup {k} |-> IF x = k THEN v ELSE m[x]]

\* The record as the callbacks of filters/cookie.rs address it: `cookies`
\* takes push, `responses` takes insert(status, response).
CookieRecord(responses) ==
    [Default EXCEPT !.cookies = <<>>, !.responses = responses]

\* The documentation callback of cookie(name).
cookie_document(name, r) ==
    LET bad == [DocumentedResponseDefault EXCEPT !.description = "Bad Response"]
        r1 == [r EXCEPT !.responses = map_insert(@, 400, bad)]
    IN  [r1 EXCEPT !.cookies = Append(@, Named(name, None, TRUE))]

\* The documentation callback of optional(name).
optional_document(name, r) ==
    [r EXCEPT !.cookies = Append(@, Named(name, None, FALSE))]

\* The records the cookie filters start from: nothing documented, or a 400
\* response documented by an earlier filter.
CookieStartRecords ==
    {CookieRecord(EmptyMap),
     CookieRecord(map_insert(EmptyMap, 400, Response(400, "custom", {}, {})))}

InitCookieDoc ==
    /\ route \in CookieStartRecords
    /\ hist = <<>>
    /\ docIn = Some(route)
    /\ node = None
    /\ docOut = None
    /\ cbCalls = 0
    /\ future = None
    /\ polls = 0
    /\ lastPoll = None
    /\ fnCalls = <<>>
    /\ docEntry = "none"
    /\ IdleOpenapi
    /\ IdleLeaf

\* describe of cookie(name), an explicit node: its callback applied to the
\* record built so far.
CookieDescribe ==
    /\ Len(hist) < MaxOps
    /\ \E n \in CookieNames :
           /\ route' = cookie_document(n, route)
           /\ hist' = Append(hist, Call("cookie", n))
    /\ UNCHANGED <<openapiVars, filterVars, leafVars>>

\* describe of optional(name).
OptionalDescribe ==
    /\ Len(hist) < MaxOps
    /\ \E n \in CookieNames :
           /\ route' = optional_document(n, route)
           /\ hist' = Append(hist, Call("optional", n))
    /\ UNCHANGED <<openapiVars, filterVars, leafVars>>

NextCookieDoc ==
    \/ CookieDescribe
    \/ OptionalDescribe

SpecCookieDoc == InitCookieDoc /\ [][NextCookieDoc]_vars

\* --------------------------------------------------- And and Or, documented
\* Combinators in one composed tree.
MaxCombinators == 2

RECURSIVE describe_tree(_, _)

RECURSIVE fold_second(_, _)
\* The second filter's describe folded from each record of the first, the
\* results concatenated in the order of the first's records.
fold_second(items, f) ==
    IF items = <<>> THEN [records |-> <<>>, calls |-> 0]
    ELSE LET head == describe_tree(f, Head(items))
             rest == fold_second(Tail(items), f)
         IN  [records |-> head.records \o rest.records,
              calls |-> head.calls + rest.calls]

\* And::describe with the second filter asked for the first record of the
\* first filter only.
and_describe_first_only(n, r) ==
    LET left == describe_tree(n.first, r)
        fold == fold_second(IF left.records = <<>> THEN <<>>
                            ELSE <<Head(left.records)>>, n.second)
    IN  [records |-> fold.records, calls |-> left.calls + fold.calls]

\* And::describe: the first filter's records, and from each of them the
\* second filter's.
and_describe(n, r) ==
    LET left == describe_tree(n.first, r)
        fold == fold_second(left.records, n.second)
    IN  [records |-> fold.records, calls |-> left.calls + fold.calls]

\* Or::describe: the records of the first branch, then those of the second,
\* both from the same record.
or_describe(n, r) ==
    LET left == describe_tree(n.first, r)
        right == describe_tree(n.second, r)
    IN  [records |-> left.records \o right.records,
         calls |-> left.calls + right.calls]

\* The documentation half of a composed tree.
describe_tree(n, r) ==
    CASE n.kind = "and" -> and_describe(n, r)
      [] n.kind = "or" -> or_describe(n, r)
      [] OTHER -> describe_node(n, r)

\* An explicit node around a filter that yields 1 at once.
ExplicitLeaf(cb) ==
    [kind |-> "explicit",
     filter |-> [future |-> [kind |-> "leaf", pending |-> 0,
                             result |-> Ok(<<1>>)]],
     describe |-> cb]

\* A Map over an explicit node, replying D.
MapLeaf(D) ==
    [kind |-> "map", filter |-> ExplicitLeaf(<<>>), callback |-> "inc",
     reply |-> D]

\* The filters composed: two that document one record each, one that
\* documents two and one that documents none.
ComposeLeaves ==
    {ExplicitLeaf(<<Call("tag", "t1")>>),
     ExplicitLeaf(<<Call("push_path", <<"a">>), Call("tag", "t2")>>),
     MapLeaf("either"),
     MapLeaf("never")}

And(l, r) == [kind |-> "and", first |-> l, second |-> r]

Or(l, r) == [kind |-> "or", first |-> l, second |-> r]

RECURSIVE TreesOf(_)
\* The trees with exactly n combinators.
TreesOf(n) ==
    IF n = 0 THEN ComposeLeaves
    ELSE UNION {UNION {{And(l, r), Or(l, r)} :
                           l \in TreesOf(k), r \in TreesOf(n - 1 - k)} :
                    k \in 0..(n - 1)}

\* The records a composed tree is described from by a parent.
ComposeInputs ==
    {WithMethod(Default, "GET"),
     response(response(push_path(Default, <<"b", "c">>), R200), R404)}

InitCompose ==
    /\ node \in UNION {TreesOf(n) : n \in 0..MaxCombinators}
    /\ docIn = None
    /\ docOut = None
    /\ cbCalls = 0
    /\ future = None
    /\ polls = 0
    /\ lastPoll = None
    /\ fnCalls = <<>>
    /\ docEntry = "none"
    /\ IdleRecord
    /\ IdleOpenapi
    /\ IdleLeaf

\* describe(&filter) of a composed tree.
ComposeDescribeRoot ==
    /\ docEntry = "none"
    /\ LET res == describe_tree(node, Default)
       IN  /\ docIn' = Some(Default)
           /\ docOut' = Some(res.records)
           /\ cbCalls' = cbCalls + res.calls
    /\ docEntry' = "describe"
    /\ UNCHANGED <<node, future, polls, lastPoll, fnCalls, recordVars,
                   openapiVars, leafVars>>

\* The tree's describe called by a parent with the record it has built.
ComposeDescribeFrom ==
    /\ docEntry = "none"
    /\ \E r \in ComposeInputs :
           LET res == describe_tree(node, r)
           IN  /\ docIn' = Some(r)
               /\ docOut' = Some(res.records)
               /\ cbCalls' = cbCalls + res.calls
    /\ docEntry' = "node"
    /\ UNCHANGED <<node, future, polls, lastPoll, fnCalls, recordVars,
                   openapiVars, leafVars>>

NextCompose ==
    \/ ComposeDescribeRoot
    \/ ComposeDescribeFrom

SpecCompose == InitCompose /\ [][NextCompose]_vars

\* -------------------------------------------- filters/cookie.rs, extraction
\* The values a cookie of a request can carry.
CookieValues == {"u", "v", "w"}

\* The Cookie headers of the requests: the cookies by name.
Jars ==
    UNION {[S -> CookieValues] : S \in SUBSET CookieNames}

\* The requests: without a Cookie header, or with one.
Requests == {[cookie |-> c] : c \in {None} \cup {Some(j) : j \in Jars}}

\* Cookie::get(name)
cookie_get(jar, name) ==
    IF name \in DOMAIN jar THEN Some(jar[name]) ELSE None

\* reject::missing_cookie(name)
missing_cookie(name) == [kind |-> "missing-cookie", name |-> name]

\* The rejection of a header filter for a request without the header.
missing_header == [kind |-> "missing-header", name |-> "cookie"]

\* header::header2::<Cookie>(): the typed Cookie header, required.
header2(req) ==
    IF req.cookie = None THEN Err(missing_header) ELSE Ok(<<req.cookie[1]>>)

\* header::optional2::<Cookie>(): the typed Cookie header if there is one.
optional2(req) == Ok(<<req.cookie>>)

\* The closure of cookie(name) if an absent cookie were extracted as the
\* empty string.
cookie_closure_or_default(name, jar) ==
    Ok(<<unwrap_or(cookie_get(jar, name), "")>>)

\* The closure given to and_then by cookie(name).
cookie_closure(name, jar) ==
    LET found == cookie_get(jar, name)
    IN  IF found = None THEN Err(missing_cookie(name)) ELSE Ok(<<found[1]>>)

\* The extraction of cookie(name): header2().and_then(closure); and_then
\* runs the closure on what the filter extracted and passes a rejection on.
cookie_filter(name, req) ==
    LET h == header2(req)
    IN  IF h.ok THEN cookie_closure(name, h.value[1]) ELSE h

\* The closure given to map by optional(name).
optional_closure(name, opt) ==
    IF opt = None THEN None ELSE cookie_get(opt[1], name)

\* The extraction of optional(name): optional2().map(closure), the Map of
\* filter/map.rs.
optional_filter(name, req) ==
    LET h == optional2(req)
    IN  IF h.ok THEN Ok(<<optional_closure(name, h.value[1])>>) ELSE h

\* The two filters of the module, per name.
CookieFilters ==
    {[kind |-> k, name |-> n] : k \in {"cookie", "optional"}, n \in CookieNames}

InitCookie ==
    /\ request \in Requests
    /\ node \in CookieFilters
    /\ docIn = None
    /\ docOut = None
    /\ cbCalls = 0
    /\ future = None
    /\ polls = 0
    /\ lastPoll = None
    /\ fnCalls = <<>>
    /\ docEntry = "none"
    /\ descriptor = None
    /\ schemaOut = None
    /\ IdleRecord
    /\ IdleOpenapi

\* cookie(name) run on the request to completion.
ExtractCookie ==
    /\ node.kind = "cookie"
    /\ lastPoll = None
    /\ lastPoll' = Some(Ready(cookie_filter(node.name, request)))
    /\ polls' = polls + 1
    /\ UNCHANGED <<node, docIn, docOut, docEntry, cbCalls, future, fnCalls,
                   recordVars, openapiVars, leafVars>>

\* optional(name) run on the request to completion.
ExtractOptional ==
    /\ node.kind = "optional"
    /\ lastPoll = None
    /\ lastPoll' = Some(Ready(optional_filter(node.name, request)))
    /\ polls' = polls + 1
    /\ UNCHANGED <<node, docIn, docOut, docEntry, cbCalls, future, fnCalls,
                   recordVars, openapiVars, leafVars>>

NextCookie ==
    \/ ExtractCookie
    \/ ExtractOptional

SpecCookie == InitCookie /\ [][NextCookie]_vars

\* ----------------------------------------------------- descriptor to schema
\* Composite nodes (Array, Map, Object, OneOf) in one descriptor.
MaxComposites == 2

boolean == Primitive("Boolean")

float == Primitive("Float")

\* array(ty): DocumentedType::Array; its field `ty` is called element here,
\* apart from the scalar kind `ty` of a Primitive.
array(ty) ==
    [kind |-> "Array", element |-> ty,
     description |-> None, example |-> None, nullable |-> None]

\* map(value_type): DocumentedType::Map
map(value_type) ==
    [kind |-> "Map", value_type |-> value_type,
     description |-> None, example |-> None, nullable |-> None]

\* one_of(variants): DocumentedType::OneOf
one_of(variants) ==
    [kind |-> "OneOf", variants |-> variants,
     description |-> None, example |-> None, nullable |-> None]

\* DocumentedType::description, ::example and ::nullable called in a row.
overlay(t, d, e, n) ==
    [t EXCEPT !.description = Some(d), !.example = Some(e),
              !.nullable = Some(n)]

\* HashMap with the entry a, or the entries a and b.
fields1(a) == [k \in {"a"} |-> a]

fields2(a, b) == [k \in {"a", "b"} |-> IF k = "a" THEN a ELSE b]

\* The scalars: the four kinds, with and without the three overlays.
PrimitiveInputs ==
    {boolean, float, overlay(integer, "d", "e", TRUE),
     [string EXCEPT !.nullable = Some(FALSE)]}

\* A composite as built, or with description, example and nullable set.
Overlaid(S) == S \cup {overlay(t, "D", "E", TRUE) : t \in S}

\* The second entry of a composite with two entries.
SecondEntries == {boolean, [string EXCEPT !.nullable = Some(FALSE)]}

RECURSIVE TypesOf(_)
\* The descriptors with exactly n composite nodes, nested through the only
\* or the first entry of each composite.
TypesOf(n) ==
    IF n = 0 THEN PrimitiveInputs
    ELSE Overlaid(
             (IF n = 1 THEN {object(EmptyMap), one_of(<<>>)} ELSE {})
             \cup UNION {{array(t), map(t), object(fields1(t)), one_of(<<t>>)} :
                             t \in TypesOf(n - 1)}
             \cup UNION {{object(fields2(t, u)), one_of(<<t, u>>)} :
                             t \in TypesOf(n - 1), u \in SecondEntries})

InitSchema ==
    /\ descriptor \in UNION {{Some(t) : t \in TypesOf(n)} : n \in 0..MaxComposites}
    /\ schemaOut = None
    /\ request = None
    /\ IdleRecord
    /\ IdleOpenapi
    /\ IdleFilter

\* documented_type_to_openapi called on the descriptor.
ConvertType ==
    /\ schemaOut = None
    /\ schemaOut' = Some(documented_type_to_openapi(descriptor[1]))
    /\ UNCHANGED <<request, descriptor, recordVars, openapiVars, filterVars>>

NextSchema == ConvertType

SpecSchema == InitSchema /\ [][NextSchema]_vars

\* ------------------------------------------------- explicit over a filter
\* The types a path parameter is parsed into.
ParamTypes == {"u32", "String", "f64", "Uuid"}

\* impl From<TypeId> for DocumentedType
from_type_id(T) ==
    CASE T \in {"u8", "u16", "u32", "u64", "u128", "usize",
                "i8", "i16", "i32", "i64", "i128", "isize"} -> integer
      [] T \in {"String", "&str"} -> string
      [] T \in {"f32", "f64"} -> float
      [] OTHER -> object(EmptyMap)

\* filters::path::param::<T>() and path::tail() as documented by
\* themselves: a capture labelled by its position, not by a name.
path_capture(T) ==
    ExplicitLeaf(<<Call("parameter", parameter_of(<<"P">>, from_type_id(T)))>>)

\* parameter(name, TypeId::of::<T>()).description(description)
named_parameter(name, description_, T) ==
    [parameter_of(name, from_type_id(T)) EXCEPT
        !.description = Some(description_)]

\* explicit(filter, describe)
explicit(filter, describe) ==
    [kind |-> "explicit", filter |-> filter, describe |-> describe]

\* param(name, description) whose documentation also holds what the capture
\* documents by itself.
param_after_capture(name, description_, T) ==
    explicit(path_capture(T),
             path_capture(T).describe
                 \o <<Call("parameter", named_parameter(name, description_, T))>>)

\* param::<T>(name, description)
param(name, description_, T) ==
    explicit(path_capture(T),
             <<Call("parameter", named_parameter(name, description_, T))>>)

\* tail(name, description)
tail(name, description_) ==
    explicit(path_capture("Tail"),
             <<Call("parameter", named_parameter(name, description_, "String"))>>)

\* The filters an explicit node is put around: a capture, a filter that
\* documents two records, one that documents none, one that adds a tag.
WrappedFilters ==
    {path_capture("u32"), MapLeaf("either"), MapLeaf("never"),
     ExplicitLeaf(<<Call("tag", "t2")>>)}

ParamNodes ==
    {param(n, "d", T) : n \in ParamNames, T \in ParamTypes}
        \cup {tail(n, "d") : n \in ParamNames}

OverrideNodes ==
    {explicit(w, cb) : w \in WrappedFilters, cb \in Callbacks} \cup ParamNodes

InitOverride ==
    /\ node \in OverrideNodes
    /\ docIn = None
    /\ docOut = None
    /\ cbCalls = 0
    /\ future = None
    /\ polls = 0
    /\ lastPoll = None
    /\ fnCalls = <<>>
    /\ docEntry = "none"
    /\ IdleRecord
    /\ IdleOpenapi
    /\ IdleLeaf

NextOverride ==
    \/ DescribeRoot
    \/ DescribeFrom

SpecOverride == InitOverride /\ [][NextOverride]_vars

\* ------------------------------------------------------------ history views
IsParameterCall(c) == c.op = "parameter"

\* The arguments of the parameter() calls of hist, in call order.
ParameterArgs ==
    LET calls == SelectSeq(hist, IsParameterCall)
    IN  [i \in 1..Len(calls) |-> calls[i].arg]

\* The first call of `op` in hist whose argument has the value k in the
\* field `key`.
FirstArg(op, key, k) ==
    LET i == CHOOSE i \in 1..Len(hist) :
                 /\ hist[i].op = op
                 /\ hist[i].arg[key] = k
                 /\ \A j \in 1..(i - 1) :
                        ~(hist[j].op = op /\ hist[j].arg[key] = k)
    IN  hist[i].arg

\* S holds, for every key some call of `op` inserted, exactly the argument
\* of the first such call, and nothing else.
FirstWins(S, op, key) ==
    /\ \A i \in 1..Len(hist) :
           hist[i].op = op =>
               Cardinality({e \in S : e[key] = hist[i].arg[key]}) = 1
    /\ \A e \in S :
           /\ \E i \in 1..Len(hist) :
                  hist[i].op = op /\ hist[i].arg[key] = e[key]
           /\ e = FirstArg(op, key, e[key])

\* Two calls of `op` with the same key and different arguments, followed by
\* at least one more operation.
CollidingCalls(op, key) ==
    \E i, j \in 1..Len(hist) :
        /\ i < j
        /\ j < Len(hist)
        /\ hist[i].op = op
        /\ hist[j].op = op
        /\ hist[i].arg[key] = hist[j].arg[key]
        /\ hist[i].arg # hist[j].arg

\* ------------------------------------------------------------- placeholders
IsDigit(c) == \E d \in 1..10 : DigitChars[d] = c

RECURSIVE DigitRun(_)
\* The length of the longest prefix of s made of digits.
DigitRun(s) ==
    IF s # <<>> /\ IsDigit(s[1]) THEN 1 + DigitRun(Tail(s)) ELSE 0

RECURSIVE PlaceholdersOf(_)
\* The positional placeholders ({digits}) of a path, left to right.
PlaceholdersOf(s) ==
    IF s = <<>> THEN <<>>
    ELSE LET n == DigitRun(Tail(s))
         IN  IF s[1] = "{" /\ n > 0 /\ Len(s) >= n + 2 /\ s[n + 2] = "}"
             THEN <<SubSeq(s, 1, n + 2)>>
                      \o PlaceholdersOf(SubSeq(s, n + 3, Len(s)))
             ELSE PlaceholdersOf(Tail(s))

HasPrefix(s, p) == Len(s) >= Len(p) /\ SubSeq(s, 1, Len(p)) = p

RECURSIVE NamedPath(_, _)
\* The path with every placeholder {i} of a declared parameter replaced, in
\* one pass, by {name of the i-th parameter}.
NamedPath(s, params) ==
    IF s = <<>> THEN <<>>
    ELSE LET ks == {k \in 0..(Len(params) - 1) :
                        HasPrefix(s, format_braces(to_string(k)))}
         IN  IF ks # {}
             THEN LET k == CHOOSE k \in ks : TRUE
                      p == format_braces(to_string(k))
                  IN  format_braces(params[k + 1].name)
                          \o NamedPath(SubSeq(s, Len(p) + 1, Len(s)), params)
             ELSE <<s[1]>> \o NamedPath(Tail(s), params)

\* ------------------------------------------------------------------- claims
\* C1: in every record reachable from the default record by record
\* operations, the placeholders of `path` are exactly {0}, {1}, ...,
\* {parameters.len() - 1} in this order (so their number is
\* parameters.len()), and the k-th entry of `parameters` is the argument of
\* the k-th call of parameter().
PlaceholdersMatchParameters ==
    /\ PlaceholdersOf(route.path) =
           [k \in 1..Len(route.parameters) |->
                format_braces(to_string(k - 1))]
    /\ route.parameters = ParameterArgs

\* A record with two parameters declared around a pushed segment.
TwoParametersAndSegment ==
    /\ Len(route.parameters) >= 2
    /\ \E i \in 1..Len(hist) : hist[i].op = "push_path"
    /\ PlaceholdersOf(route.path) = <<<<"{", "0", "}">>, <<"{", "1", "}">>>>

\* C2: for a record built by parameter() calls only, pretty_path() is the
\* stored path with each placeholder {i} replaced by {name of the i-th
\* parameter} and nothing else changed.
PrettyPathNamesEachPlaceholder ==
    (\A i \in 1..Len(hist) : hist[i].op = "parameter")
        => pretty_path(route) = NamedPath(route.path, route.parameters)

\* C3: headers and cookies keep, for every name, exactly one entry, the
\* first one inserted under that name, whatever operations follow.
HeadersAndCookiesFirstWins ==
    /\ FirstWins(route.headers, "header", header_key)
    /\ FirstWins(route.cookies, "cookie", cookie_key)

\* Two headers of one name and different attributes were inserted, then
\* another operation was applied; the same happened for cookies in some run.
HeaderCollision == CollidingCalls("header", header_key)

\* C4: responses keep one entry per status and bodies one entry per mime
\* (no mime being one key), the first one inserted under that key.
ResponsesAndBodiesFirstWins ==
    /\ FirstWins(route.responses, "response", response_key)
    /\ FirstWins(route.bodies, "body", body_key)

\* Two bodies without mime and with different schemas were inserted.
BodyCollision ==
    /\ CollidingCalls("body", body_key)
    /\ \E b \in route.bodies : b.mime = None
\* The records to_openapi has turned into an operation so far.
Converted == IF aborted THEN 1..(idx - 1) ELSE 1..idx

\* The converted records having the pretty path p and the method m.
RecordsOf(p, m) ==
    {k \in Converted : pretty_path(routes[k]) = p /\ routes[k].method = m}

Min(S) == CHOOSE x \in S : \A y \in S : x <= y

\* The operations to_openapi can build for a record, over the iteration
\* orders of its sets.
OperationsOf(r) == {operation_of(r, ord) : ord \in Orders(r)}

\* C5: to_openapi keeps one path entry per distinct pretty path and, in it,
\* one operation per method that occurred: the one built from the first
\* record of the input having that pretty path and method; the document
\* returned holds exactly these entries.
FirstRecordWinsPerPathAndMethod ==
    /\ \A i, j \in 1..Len(paths) : paths[i].key = paths[j].key => i = j
    /\ {paths[i].key : i \in 1..Len(paths)}
           = {pretty_path(routes[k]) : k \in 1..idx}
    /\ \A i \in 1..Len(paths) : \A m \in SlotMethods :
           LET S == RecordsOf(paths[i].key, m)
               slot == paths[i].value[m]
           IN  IF S = {} THEN slot = None
               ELSE /\ slot # None
                    /\ slot[1] \in OperationsOf(routes[Min(S)])
    /\ document # None =>
           /\ ~aborted
           /\ idx = Len(routes)
           /\ document[1].paths = paths

\* A document was returned for an input in which a later record repeats the
\* pretty path and method of an earlier, different one.
DuplicatePathAndMethodConverted ==
    /\ document # None
    /\ \E i, j \in 1..Len(routes) :
           /\ i < j
           /\ routes[i] # routes[j]
           /\ pretty_path(routes[i]) = pretty_path(routes[j])
           /\ routes[i].method = routes[j].method

\* C6: in every operation to_openapi stores, the responses are in strictly
\* ascending order of status, and their statuses are those of the record the
\* operation was built from, each once.
ResponsesAscending ==
    \A i \in 1..Len(paths) : \A m \in SlotMethods :
        paths[i].value[m] # None =>
            LET rs == paths[i].value[m][1].responses
                src == routes[Min(RecordsOf(paths[i].key, m))]
            IN  /\ \A a, b \in 1..Len(rs) : a < b => rs[a].key < rs[b].key
                /\ {rs[a].key : a \in 1..Len(rs)}
                       = {x.status : x \in src.responses}
                /\ Len(rs) = Cardinality(src.responses)

\* A document with an operation of three responses was returned.
ThreeResponsesConverted ==
    /\ document # None
    /\ \E i \in 1..Len(paths) : \E m \in SlotMethods :
           /\ paths[i].value[m] # None
           /\ Len(paths[i].value[m][1].responses) = 3

\* C7: an explicit node's describe applies its callback once to the input
\* record and returns that one record; its filter returns the wrapped
\* filter's future, which completes with the wrapped filter's value or
\* rejection, and never invokes the callback.
ExplicitNeverFansOut ==
    node.kind = "explicit" =>
        /\ docOut = None => cbCalls = 0
        /\ docOut # None =>
               /\ docOut[1] = <<run_calls(node.describe, docIn[1])>>
               /\ cbCalls = 1
        /\ (future # None /\ polls = 0) => future[1] = node.filter.future
        /\ (lastPoll # None /\ polls <= node.filter.future.pending)
               => lastPoll[1] = Pending
        /\ (lastPoll # None /\ polls > node.filter.future.pending)
               => lastPoll[1] = Ready(node.filter.future.result)

\* An explicit node with a callback that changes the record was described
\* from a non-default record, and its future completed with a rejection.
ExplicitDescribedAndRejected ==
    /\ node.kind = "explicit"
    /\ node.describe # <<>>
    /\ docOut # None
    /\ docIn # Some(Default)
    /\ lastPoll # None
    /\ lastPoll[1].ready
    /\ ~lastPoll[1].output.ok

RECURSIVE LeafFutureOf(_)
\* The wrapped filter's future at the bottom of a node.
LeafFutureOf(n) ==
    IF n.kind = "explicit" THEN n.filter.future ELSE LeafFutureOf(n.filter)

RECURSIVE OutcomeOf(_)
\* What the future of a node completes with.
OutcomeOf(n) ==
    IF n.kind = "explicit" THEN n.filter.future.result
    ELSE LET c == OutcomeOf(n.filter)
         IN  IF c.ok THEN Ok(<<call(n.callback, c.value)>>) ELSE c

\* The transformation calls of the outermost MapFuture.
OuterCalls ==
    LET IsOuter(c) == c.depth = 0 IN SelectSeq(fnCalls, IsOuter)

\* C8: while its child is pending a Map future is pending and its
\* transformation has not been called; when the child completes with Ok(x)
\* it completes with Ok((f(x),)) after exactly one call of f, on x; when the
\* child completes with Err(e) it completes with Err(e) and f is not called.
MapFutureFollowsChild ==
    (node.kind = "map" /\ lastPoll # None) =>
        LET c == OutcomeOf(node.filter)
        IN  IF polls <= LeafFutureOf(node).pending
            THEN lastPoll[1] = Pending /\ OuterCalls = <<>>
            ELSE IF c.ok
                 THEN /\ lastPoll[1] = Ready(Ok(<<call(node.callback, c.value)>>))
                      /\ OuterCalls = <<FnCall(0, node.callback, c.value)>>
                 ELSE /\ lastPoll[1] = Ready(Err(c.error))
                      /\ OuterCalls = <<>>

\* A Map future answered Pending at least once and then completed with a
\* transformed value.
MapCompletedAfterPending ==
    /\ node.kind = "map"
    /\ polls >= 2
    /\ lastPoll # None
    /\ lastPoll[1].ready
    /\ lastPoll[1].output.ok
    /\ OuterCalls # <<>>

RECURSIVE SumLen(_, _)
\* The number of records the reply type D yields over the records of items.
SumLen(items, D) ==
    IF items = <<>> THEN 0
    ELSE Len(reply_document(D, Head(items))) + SumLen(Tail(items), D)

\* C9: the documentation of a Map node is, child record by child record and
\* in the child's order, the reply type's documentation of that record: its
\* length is the sum of the lengths of these, each output record lies in the
\* block of exactly one child record, and a reply that documents nothing
\* leaves the child's records as they are.
MapDocumentIsFlattenedExpansion ==
    (node.kind = "map" /\ docOut # None) =>
        LET child == describe_node(node.filter, docIn[1]).records
            out == docOut[1]
            Offset(i) == SumLen(SubSeq(child, 1, i - 1), node.reply)
        IN  /\ Len(out) = SumLen(child, node.reply)
            /\ \A i \in 1..Len(child) :
                   LET block == reply_document(node.reply, child[i])
                   IN  SubSeq(out, Offset(i) + 1, Offset(i) + Len(block)) = block
            /\ node.reply = "nothing" => out = child

\* A Map whose reply documents two alternatives, over a child that already
\* produced two records: four records come out.
MapOverFanOut ==
    /\ node.kind = "map"
    /\ node.reply = "either"
    /\ node.filter.kind = "map"
    /\ node.filter.reply = "either"
    /\ docOut # None
    /\ Len(docOut[1]) = 4

RECURSIVE CallbackOf(_)
\* The documentation callback of the explicit node at the bottom of a node.
CallbackOf(n) == IF n.kind = "explicit" THEN n.describe ELSE CallbackOf(n.filter)

\* No filter of the node contributes a path segment or a path parameter.
ContributesNoPath(n) ==
    \A i \in 1..Len(CallbackOf(n)) :
        CallbackOf(n)[i].op \notin {"push_path", "parameter"}

\* C10 as stated: describe starts the root filter from a record with method
\* POST, an empty path and empty collections; every record it returns has a
\* non-empty path, `/` when no filter contributed to the path.
DescribeStartsFromEmptyPath ==
    docEntry = "describe" =>
        /\ docIn[1] =
               [bodies |-> {}, cookies |-> {}, description |-> None,
                headers |-> {}, method |-> "POST", parameters |-> <<>>,
                path |-> <<>>, queries |-> <<>>, responses |-> {},
                tags |-> <<>>]
        /\ \A i \in 1..Len(docOut[1]) :
               /\ docOut[1][i].path # <<>>
               /\ ContributesNoPath(node) => docOut[1][i].path = <<"/">>

\* C10 as amended: describe starts the root filter from the default record,
\* whose method is POST, whose path is `/` and whose collections and
\* description are empty; every record it returns has a non-empty path that
\* begins with `/`, and exactly `/` when no filter contributed to the path.
DescribeStartsFromRootPath ==
    docEntry = "describe" =>
        /\ docIn[1] =
               [bodies |-> {}, cookies |-> {}, description |-> None,
                headers |-> {}, method |-> "POST", parameters |-> <<>>,
                path |-> <<"/">>, queries |-> <<>>, responses |-> {},
                tags |-> <<>>]
        /\ \A i \in 1..Len(docOut[1]) :
               /\ docOut[1][i].path # <<>>
               /\ docOut[1][i].path[1] = "/"
               /\ ContributesNoPath(node) => docOut[1][i].path = <<"/">>

\* describe returned a record to whose path no filter contributed.
DescribedWithoutPath ==
    /\ docEntry = "describe"
    /\ ContributesNoPath(node)
    /\ docOut # None
    /\ Len(docOut[1]) >= 1
    /\ CallbackOf(node) # <<>>

\* The cookie entries of the record that carry the name n.
CookieEntries(n) == {i \in 1..Len(route.cookies) : route.cookies[i].name = n}

\* The first filter applied for the name n was cookie(n).
FirstIsCookie(n) ==
    \E i \in 1..Len(hist) :
        /\ hist[i] = Call("cookie", n)
        /\ \A j \in 1..(i - 1) : hist[j].arg # n

\* C11: after the documentation of cookie(n), and of any further cookie(n)
\* or optional(n), the record holds exactly one cookie entry named n, the
\* required one of the first application, and a 400 response documented
\* before is still the one on the record.
CookieLeavesFirstWins ==
    /\ \A n \in CookieNames :
           FirstIsCookie(n) =>
               /\ Cardinality(CookieEntries(n)) = 1
               /\ \A i \in CookieEntries(n) : route.cookies[i].required
    /\ 400 \in DOMAIN docIn[1].responses =>
           route.responses[400] = docIn[1].responses[400]

\* The record at position k of the input carries a method other than GET,
\* POST, PUT, DELETE, HEAD, OPTIONS, PATCH and TRACE.
Slotless(k) ==
    routes[k].method \notin
        {"GET", "POST", "PUT", "DELETE", "HEAD", "OPTIONS", "PATCH", "TRACE"}

\* C12: to_openapi has aborted exactly when a record it has reached carries
\* a method without a slot, and then returns no document; when it has gone
\* through an input whose records all carry one of the eight methods it has
\* not aborted, and the document it returns is returned for such inputs
\* only, after the last record.
AbortsExactlyOnSlotlessMethod ==
    /\ aborted <=> \E k \in 1..idx : Slotless(k)
    /\ aborted => document = None
    /\ document # None =>
           /\ idx = Len(routes)
           /\ \A k \in 1..Len(routes) : ~Slotless(k)
    /\ (idx < Len(routes) /\ ~aborted) => document = None
    /\ idx <= Len(routes)

\* to_openapi aborted on a CONNECT record after converting another record.
AbortedOnConnect ==
    /\ aborted
    /\ idx >= 2
    /\ routes[idx].method = "CONNECT"
    /\ document = None

\* The record the stored operation of path entry i and method m was built
\* from.
SourceOf(i, m) == routes[Min(RecordsOf(paths[i].key, m))]

\* C13: the request body of every stored operation is required exactly when
\* its record has a body, and its content has one entry per body of the
\* record, keyed by the body's mime, `*/*` for a body without mime, and
\* holding the body's converted schema.
RequestBodyHasOneEntryPerBody ==
    \A i \in 1..Len(paths) : \A m \in SlotMethods :
        paths[i].value[m] # None =>
            LET rb == paths[i].value[m][1].request_body
                r == SourceOf(i, m)
            IN  /\ rb.required <=> r.bodies # {}
                /\ Len(rb.content) = Cardinality(r.bodies)
                /\ \A b \in r.bodies : \E e \in 1..Len(rb.content) :
                       /\ rb.content[e].key = unwrap_or(b.mime, "*/*")
                       /\ rb.content[e].value.schema
                              = Some(documented_type_to_openapi(b.body))

\* The records a tree documents from a record.
RecordsFrom(n, r) == describe_tree(n, r).records

\* C14: an And documents, for each record of its first filter in order, the
\* records its second filter documents from that record, so as many records
\* as the product of the two counts; an Or documents the records of its
\* first branch followed by those of its second, each from the record the
\* Or was given, so as many as the sum, none merged.
AndIsProductOrIsSum ==
    docOut # None =>
        LET out == docOut[1]
            L == RecordsFrom(node.first, docIn[1])
            R == RecordsFrom(node.second, docIn[1])
        IN  /\ node.kind = "and" =>
                /\ Len(out) = Len(L) * Len(R)
                /\ \A i \in 1..Len(L) : \A j \in 1..Len(R) :
                       out[(i - 1) * Len(R) + j]
                           = RecordsFrom(node.second, L[i])[j]
            /\ node.kind = "or" =>
                /\ Len(out) = Len(L) + Len(R)
                /\ \A i \in 1..Len(L) : out[i] = L[i]
                /\ \A j \in 1..Len(R) : out[Len(L) + j] = R[j]

\* An And whose first filter is an Or was described into four records or
\* more.
AndOverOrFannedOut ==
    /\ docOut # None
    /\ node.kind = "and"
    /\ node.first.kind = "or"
    /\ Len(docOut[1]) >= 4

\* The value of the cookie the filter is built for, if the request has it.
Wanted ==
    IF request.cookie = None THEN None
    ELSE cookie_get(request.cookie[1], node.name)

\* What optional(name) must extract.
OptionalExtracts ==
    node.kind = "optional" => lastPoll[1].output = Ok(<<Wanted>>)

\* C15 as stated: cookie(name) extracts the cookie's value when the request
\* has it and otherwise rejects with the missing-cookie rejection for the
\* name; optional(name) never rejects and extracts Some(value) or None.
CookieRejectsWithMissingCookie ==
    lastPoll # None =>
        /\ node.kind = "cookie" =>
               lastPoll[1].output
                   = IF Wanted # None THEN Ok(<<Wanted[1]>>)
                     ELSE Err(missing_cookie(node.name))
        /\ OptionalExtracts

\* C15: cookie(name) extracts the cookie's value when the request has it;
\* when the Cookie header lacks the name it rejects with the missing-cookie
\* rejection for the name, and when the request has no Cookie header it
\* rejects with the header filter's rejection, which does not name the
\* cookie; optional(name) never rejects and extracts Some(value) or None.
CookieRejectsByStage ==
    lastPoll # None =>
        /\ node.kind = "cookie" =>
               lastPoll[1].output
                   = IF Wanted # None THEN Ok(<<Wanted[1]>>)
                     ELSE IF request.cookie = None THEN header2(request)
                     ELSE Err(missing_cookie(node.name))
        /\ node.kind = "cookie" /\ request.cookie = None =>
               /\ ~lastPoll[1].output.ok
               /\ lastPoll[1].output.error # missing_cookie(node.name)
        /\ OptionalExtracts

\* cookie(name) was run on a request without a Cookie header.
CookieRunWithoutHeader ==
    /\ lastPoll # None
    /\ node.kind = "cookie"
    /\ request.cookie = None

\* The schema type a scalar kind is converted to.
ScalarKind ==
    [Boolean |-> "boolean", Float |-> "number", Integer |-> "integer",
     String |-> "string"]

RECURSIVE SameShape(_, _)
\* The schema s has the shape of the descriptor t at every depth, with the
\* overlays of each node.
SameShape(t, s) ==
    /\ s.schema_data.description = t.description
    /\ s.schema_data.example = t.example
    /\ s.schema_data.nullable = IF t.nullable = None THEN FALSE
                                ELSE t.nullable[1]
    /\ CASE t.kind = "Primitive" ->
              s.schema_kind = [type |-> ScalarKind[t.ty]]
         [] t.kind = "Array" ->
              /\ DOMAIN s.schema_kind = {"type", "items"}
              /\ s.schema_kind.type = "array"
              /\ SameShape(t.element, s.schema_kind.items)
         [] t.kind = "Map" ->
              /\ "type" \in DOMAIN s.schema_kind
              /\ s.schema_kind.type = "object"
              /\ s.schema_kind.properties = EmptyMap
              /\ s.schema_kind.additional_properties # None
              /\ SameShape(t.value_type, s.schema_kind.additional_properties[1])
         [] t.kind = "Object" ->
              /\ "type" \in DOMAIN s.schema_kind
              /\ s.schema_kind.type = "object"
              /\ s.schema_kind.additional_properties = None
              /\ DOMAIN s.schema_kind.properties = DOMAIN t.properties
              /\ \A n \in DOMAIN t.properties :
                     SameShape(t.properties[n], s.schema_kind.properties[n])
         [] t.kind = "OneOf" ->
              /\ DOMAIN s.schema_kind = {"one_of"}
              /\ Len(s.schema_kind.one_of) = Len(t.variants)
              /\ \A i \in 1..Len(t.variants) :
                     SameShape(t.variants[i], s.schema_kind.one_of[i])

\* C16: the schema a descriptor is converted to has the descriptor's shape
\* at every depth: scalars by kind, Array to array of the converted element,
\* Map to object with converted additional properties, Object to object
\* with the same property names, OneOf to the converted variants in order;
\* at every node nullable is false when unset and else the value set, and
\* description and example are those of the descriptor.
ConversionPreservesShape ==
    schemaOut # None => SameShape(descriptor[1], schemaOut[1])

\* A OneOf of two variants, the first of them composite, was converted,
\* with nullable unset at the top.
NestedOneOfConverted ==
    /\ schemaOut # None
    /\ descriptor[1].kind = "OneOf"
    /\ descriptor[1].nullable = None
    /\ Len(descriptor[1].variants) = 2
    /\ descriptor[1].variants[1].kind \in {"Array", "Map", "Object"}

\* The node with another filter inside.
Rewrapped(w) == [node EXCEPT !.filter = w]

RECURSIVE PiecesUpTo(_)
\* What the first k calls added to the path: the segment of each push_path
\* and the placeholder of each parameter, in call order.
PiecesUpTo(k) ==
    IF k = 0 THEN <<>>
    ELSE LET c == hist[k]
             before == PiecesUpTo(k - 1)
         IN  CASE c.op = "push_path" -> Append(before, c.arg)
               [] c.op = "parameter" ->
                    Append(before,
                           format_braces(to_string(
                               Cardinality({j \in 1..(k - 1) :
                                               hist[j].op = "parameter"}))))
               [] OTHER -> before

RECURSIVE Joined(_)
\* The pieces joined by single `/`.
Joined(pieces) ==
    IF pieces = <<>> THEN <<>>
    ELSE IF Len(pieces) = 1 THEN pieces[1]
    ELSE pieces[1] \o <<"/">> \o Joined(Tail(pieces))

NoDoubleSlash(s) ==
    \A i \in 1..(Len(s) - 1) : ~(s[i] = "/" /\ s[i + 1] = "/")

\* The segments pushed so far.
Pushed == {hist[k].arg : k \in {j \in 1..Len(hist) : hist[j].op = "push_path"}}

\* The record before the last call.
Before == run_calls(SubSeq(hist, 1, Len(hist) - 1), Default)

\* The path begins with `/`, has no `//` and is `/` followed by the pieces
\* joined by `/`.
PathIsJoinedPieces ==
    /\ route.path # <<>>
    /\ route.path[1] = "/"
    /\ NoDoubleSlash(route.path)
    /\ route.path = <<"/">> \o Joined(PiecesUpTo(Len(hist)))

\* push_path put a separator before the segment exactly when the path did
\* not end with `/`.
SeparatorIffNoTrailingSlash ==
    (hist # <<>> /\ hist[Len(hist)].op = "push_path") =>
        route.path
            = Before.path
                  \o (IF Before.path # <<>> /\ Before.path[Len(Before.path)] = "/"
                      THEN <<>> ELSE <<"/">>)
                  \o hist[Len(hist)].arg

\* C18 as stated: when every pushed segment is non-empty and does not begin
\* with `/`, the path begins with `/`, has no `//` and is `/` followed by
\* the segments and placeholders in call order joined by single `/`; and
\* push_path separates exactly when the path does not end with `/`.
PathJoinedForSegmentsNotBeginningWithSlash ==
    /\ (\A s \in Pushed : s # <<>> /\ s[1] # "/") => PathIsJoinedPieces
    /\ SeparatorIffNoTrailingSlash

\* C18: when every pushed segment is non-empty, neither begins nor ends
\* with `/` and has no `//` inside, the path begins with `/`, has no `//`
\* and is `/` followed by the segments and placeholders in call order
\* joined by single `/`; and push_path separates exactly when the path does
\* not end with `/`.
PathJoinedForSegmentsWithoutOuterSlash ==
    /\ (\A s \in Pushed :
            /\ s # <<>>
            /\ s[1] # "/"
            /\ s[Len(s)] # "/"
            /\ NoDoubleSlash(s)) => PathIsJoinedPieces
    /\ SeparatorIffNoTrailingSlash

\* A segment, a parameter and another segment were added, none of the
\* segments with a `/` at either end.
SegmentParameterSegment ==
    /\ Len(hist) = 3
    /\ hist[1].op = "push_path"
    /\ hist[2].op = "parameter"
    /\ hist[3].op = "push_path"
    /\ \A s \in Pushed : s[1] # "/" /\ s[Len(s)] # "/"

\* The fields each record operation may change.
FieldsOf(op) ==
    CASE op = "parameter" -> {"path", "parameters"}
      [] op = "push_path" -> {"path"}
      [] op = "header" -> {"headers"}
      [] op = "cookie" -> {"cookies"}
      [] op = "query" -> {"queries"}
      [] op = "body" -> {"bodies"}
      [] op = "response" -> {"responses"}
      [] op = "tag" -> {"tags"}
      [] op = "description" -> {"description"}

\* One record operation: the fields that are not its own are unchanged,
\* method among them; query and tag append their argument, description
\* stores its argument.
FrameOfStep ==
    hist' # hist =>
        LET c == hist'[Len(hist')]
        IN  /\ hist' = Append(hist, c)
            /\ DOMAIN route' = DOMAIN route
            /\ \A f \in (DOMAIN route) \ FieldsOf(c.op) : route'[f] = route[f]
            /\ route'.method = route.method
            /\ c.op = "query" => route'.queries = Append(route.queries, c.arg)
            /\ c.op = "tag" => route'.tags = Append(route.tags, c.arg)
            /\ c.op = "description" => route'.description = Some(c.arg)
            /\ c.op = "parameter" =>
                   route'.parameters = Append(route.parameters, c.arg)

\* C19: each record operation changes only its own fields (parameter: path
\* and parameters; push_path: path; header, cookie, query, body, response,
\* tag, description: the field of that name) and none changes method; query
\* and tag append at the end and keep duplicates, the last description
\* wins.
OperationsChangeOwnFieldsOnly == [][FrameOfStep]_vars

\* The same query was added twice and both are kept, after a description
\* that a second description replaced.
DuplicateQueryAndSecondDescription ==
    /\ Len(hist) = 3
    /\ hist[1].op = "query"
    /\ hist[2] = hist[1]
    /\ Len(route.queries) = 2
    /\ hist[3].op = "description"

=============================================================================
